---- MODULE Spec2Model ----
(***************************************************************************)
(* Model of the fjall transaction layer (src/tx/keyspace.rs,               *)
(* src/tx/partition.rs, single_writer_tx build) and of the segment writer  *)
(* (src/segment/writer.rs).                                                *)
(*                                                                         *)
(* Spec       : client threads calling the TransactionalPartitionHandle    *)
(*              and TxKeyspace operations, step by step, plus background   *)
(*              compaction of the underlying LSM keyspace.                 *)
(* WriterSpec : one segment writer fed a sorted input, then finalized.     *)
(***************************************************************************)
EXTENDS Integers, Sequences, FiniteSets, TLC

\* ------------------------------------------------------------------ bounds
\* Transactions: MaxSeqno caps the number of commits of a run, MaxVal the
\* values written.
MaxSeqno == 2
MaxVal == 2
\* Segment writer: MaxLen caps the number of write calls, MaxBlockSize the
\* block_size option; SeqNoMAX stands for SeqNo::MAX, the top of the model's
\* seqno domain 0..SeqNoMAX.
\* MaxFaults caps the number of calls that return an I/O error.
MaxLen == 3
MaxBlockSize == 3
SeqNoMAX == 2
MaxFaults == 1
\* Partition names: MaxRun caps the number of repetitions of a name's first
\* character.
MaxRun == 256

Threads == {"t1", "t2"}
Keys == {"a", "b"}
Vals == 1..MaxVal

\* Option<UserValue>: None is the empty tuple, Some(v) is <<v>>.
None == << >>
Some(v) == <<v>>
Opt == {None} \cup {Some(v) : v \in Vals}

\* The closures handed to fetch_update / update_fetch (inputs of the model).
\* FInc is |p| p.map(inc).or(Some(1)) with values capped at MaxVal.
FInc == [p \in Opt |-> IF p = None THEN Some(1)
                       ELSE IF p[1] < MaxVal THEN Some(p[1] + 1) ELSE p]
FNone == [p \in Opt |-> None]
FConst(v) == [p \in Opt |-> Some(v)]
Closures == {FInc, FNone} \cup {FConst(v) : v \in Vals}

VARIABLES
    \* the underlying LSM keyspace
    seqno,      \* Keyspace::instant(): the sequence number of the last commit
    versions,   \* the versioned records the tree currently holds
    tracker,    \* snapshot tracker: multiset of live instants
    \* the transaction layer
    lock,       \* the writer mutex: the set of threads holding it (0 or 1)
    pc, op, prev, updated, ret, inst, wset,
    \* history variables used to state the claims
    written,    \* every version ever committed (compaction never shrinks it)
    serial,     \* the key/value map of the serial execution, in lock order
    expect,     \* the result the serial execution gives each call
    pre,        \* the store as it was when the current lock holder got the lock
    lastTxInst, \* the instant of the last finished write transaction (-1: none)
    readAt,     \* the instant that was current when a lock-free read read
    heldAtRead  \* who held the lock when a lock-free read read the store

txvars == <<seqno, versions, tracker, lock, pc, op, prev, updated, ret, inst,
            wset, written, serial, expect, pre, lastTxInst, readAt, heldAtRead>>

VARIABLES
    \* the segment writer
    writer,     \* the Writer struct, with the files it owns
    input,      \* the values write was called with, in call order
    failed,     \* the number of calls that have returned an I/O error
    phase       \* "writing", or "finalized" once finalize has returned Ok

wvars == <<writer, input, failed, phase>>

VARIABLES
    \* the partition name validator
    pname,      \* the string s, a sequence of chars (code points)
    valid       \* <<b>> once is_valid_partition_name(s) has returned b, << >> before

nvars == <<pname, valid>>

VARIABLES
    \* the oracle and the write transactions of the SSI build
    write_serialize_lock,   \* the thread holding orc.write_serialize_lock, if any
    rset,                   \* per write transaction, the keys it has read
    publishing,             \* the writes of the commit in progress not yet published
    outcome,                \* per thread, what commit returns: "none", "ok", "conflict"
    commits                 \* history: the commits that passed validation

svars == <<write_serialize_lock, rset, publishing, outcome, commits>>

vars == <<txvars, wvars, nvars, svars>>

\* What the steps of one component leave alone.
nontx == <<wvars, nvars, svars>>
nonwriter == <<txvars, nvars, svars>>
nonname == <<txvars, wvars, svars>>
nonssi == <<wvars, nvars>>

\* --------------------------------------------- the LSM keyspace (store)
\* Versions of key k, and the newest version of k with seqno <= t.
VersionsOf(vs, k, t) == {v \in vs : v.key = k /\ v.seqno <= t}

Newest(S) == CHOOSE v \in S : \A w \in S : w.seqno <= v.seqno

\* Snapshot read at instant t: the newest version with seqno <= t; a tombstone
\* (value None) or no version at all reads as None.
snapshot_get(vs, k, t) ==
    IF VersionsOf(vs, k, t) = {} THEN None ELSE Newest(VersionsOf(vs, k, t)).value

\* PartitionHandle::get: the latest committed value.
inner_get(vs, k) == snapshot_get(vs, k, MaxSeqno + 1)

\* PartitionHandle::insert / remove: one commit, stamped with a new instant.
inner_insert(st, k, v) ==
    [versions |-> st.versions \cup {[key |-> k, seqno |-> st.seqno + 1, value |-> Some(v)]},
     seqno |-> st.seqno + 1]

inner_remove(st, k) ==
    [versions |-> st.versions \cup {[key |-> k, seqno |-> st.seqno + 1, value |-> None]},
     seqno |-> st.seqno + 1]

\* The key/value map a reader of the latest state sees.
LatestMap(vs) == [k \in Keys |-> inner_get(vs, k)]

\* SnapshotTracker: min_live, and the watermark compaction works with (the
\* current instant when no snapshot is live).
Live == {i \in 0..MaxSeqno : tracker[i] > 0}

min_live == CHOOSE i \in Live : \A j \in Live : i <= j

Watermark == IF Live = {} THEN seqno ELSE min_live

tracker_register(i) == [tracker EXCEPT ![i] = @ + 1]

tracker_release(i) == [tracker EXCEPT ![i] = @ - 1]

\* ------------------------------------------------------------------ state
NoOp == [name |-> "none", key |-> "a", f |-> FNone, val |-> 1]
NoPre == [versions |-> {}, seqno |-> 0, written |-> {}]
\* A write transaction's buffered writes: per key, {} (untouched), {None}
\* (removed) or {Some(v)} (inserted).
NoWrites == [k \in Keys |-> {}]

TxInit ==
    /\ seqno = 0
    /\ versions = {}
    /\ tracker = [i \in 0..MaxSeqno |-> 0]
    /\ lock = {}
    /\ pc = [t \in Threads |-> "idle"]
    /\ op = [t \in Threads |-> NoOp]
    /\ prev = [t \in Threads |-> None]
    /\ updated = [t \in Threads |-> None]
    /\ ret = [t \in Threads |-> None]
    /\ inst = [t \in Threads |-> 0]
    /\ wset = [t \in Threads |-> NoWrites]
    /\ written = {}
    /\ serial = [k \in Keys |-> None]
    /\ expect = [t \in Threads |-> None]
    /\ pre = NoPre
    /\ lastTxInst = -1
    /\ readAt = [t \in Threads |-> 0]
    /\ heldAtRead = [t \in Threads |-> {}]

Store == [versions |-> versions, seqno |-> seqno]

\* What a step leaves alone.
StoreSame == UNCHANGED <<seqno, versions, written, tracker>>
LocalsSame == UNCHANGED <<prev, updated, ret, inst, wset>>
GhostSame == UNCHANGED <<serial, expect, pre, lastTxInst, readAt, heldAtRead>>

\* A call begins: the thread leaves "idle".  The arguments of a call that
\* waits for the lock are drawn when it gets the lock: until then nothing
\* reads them.
Call(t, name, to) ==
    /\ pc[t] = "idle"
    /\ pc' = [pc EXCEPT ![t] = to]
    /\ op' = [op EXCEPT ![t].name = name]

\* A call returns: the thread's locals die.
Return(t) ==
    /\ pc' = [pc EXCEPT ![t] = "idle"]
    /\ op' = [op EXCEPT ![t] = NoOp]
    /\ prev' = [prev EXCEPT ![t] = None]
    /\ updated' = [updated EXCEPT ![t] = None]
    /\ ret' = [ret EXCEPT ![t] = None]
    /\ expect' = [expect EXCEPT ![t] = None]
    /\ readAt' = [readAt EXCEPT ![t] = 0]
    /\ heldAtRead' = [heldAtRead EXCEPT ![t] = {}]

\* The partition handle's tx_lock is the keyspace's writer mutex.
tx_lock == lock

\* The store as the thread that gets the lock finds it.
PreState == [versions |-> versions, seqno |-> seqno, written |-> written]

\* self.lock.lock() of the keyspace: blocks until the mutex is free.  (A call
\* that may commit is admitted only while the instant is below MaxSeqno.)
Acquire(t) ==
    /\ lock = {}
    /\ seqno < MaxSeqno
    /\ lock' = {t}
    /\ pre' = PreState

\* self.tx_lock.lock() of the partition handle.
AcquireTxLock(t) ==
    /\ tx_lock = {}
    /\ seqno < MaxSeqno
    /\ tx_lock' = {t}
    /\ pre' = PreState

\* The MutexGuard is dropped.
Release(t) ==
    /\ lock' = {}
    /\ pre' = NoPre

Commit(st) ==
    /\ versions' = st.versions
    /\ seqno' = st.seqno
    /\ written' = written \cup st.versions

\* ------------------------------------- TransactionalPartitionHandle
\* fetch_update(key, f); take(key) is fetch_update(key, |_| None).
call_fetch_update(t) ==
    /\ Call(t, "fetch_update", "fu_lock")
    /\ StoreSame /\ LocalsSame /\ GhostSame /\ UNCHANGED lock

take(t) ==
    /\ Call(t, "take", "fu_lock")
    /\ StoreSame /\ LocalsSame /\ GhostSame /\ UNCHANGED lock

\* fetch_update entering without the lock (mutant).
fetch_update_nolock(t) ==
    /\ pc[t] = "fu_lock"
    /\ seqno < MaxSeqno
    /\ pre' = PreState
    /\ pc' = [pc EXCEPT ![t] = "fu_get"]
    /\ \E k \in Keys, f \in Closures :
          /\ op[t].name = "take" => f = FNone
          /\ op' = [op EXCEPT ![t].key = k, ![t].f = f]
          /\ serial' = [serial EXCEPT ![k] = f[serial[k]]]
          /\ expect' = [expect EXCEPT ![t] = serial[k]]
    /\ StoreSame /\ LocalsSame /\ UNCHANGED <<lock, lastTxInst, readAt, heldAtRead>>

\* let _lock = self.tx_lock.lock()
fetch_update_lock(t) ==
    /\ pc[t] = "fu_lock"
    /\ AcquireTxLock(t)
    /\ pc' = [pc EXCEPT ![t] = "fu_get"]
    /\ \E k \in Keys, f \in Closures :
          /\ op[t].name = "take" => f = FNone
          /\ op' = [op EXCEPT ![t].key = k, ![t].f = f]
          /\ serial' = [serial EXCEPT ![k] = f[serial[k]]]
          /\ expect' = [expect EXCEPT ![t] = serial[k]]
    /\ StoreSame /\ LocalsSame /\ UNCHANGED <<lastTxInst, readAt, heldAtRead>>

\* let prev = self.inner.get(&key)?; let updated = f(prev.as_ref());
fetch_update_get(t) ==
    /\ pc[t] = "fu_get"
    /\ prev' = [prev EXCEPT ![t] = inner_get(versions, op[t].key)]
    /\ updated' = [updated EXCEPT ![t] = op[t].f[inner_get(versions, op[t].key)]]
    /\ pc' = [pc EXCEPT ![t] = "fu_put"]
    /\ StoreSame /\ GhostSame /\ UNCHANGED <<lock, op, ret, inst, wset>>

\* fetch_update that never removes (mutant).
fetch_update_store_noremove(st, k, p, u) ==
    IF u # None THEN inner_insert(st, k, u[1]) ELSE st

\* fetch_update that removes without looking at prev (mutant).
fetch_update_store_tombstone(st, k, p, u) ==
    IF u # None THEN inner_insert(st, k, u[1]) ELSE inner_remove(st, k)

\* if let Some(value) = updated { insert } else if prev.is_some() { remove }
fetch_update_store(st, k, p, u) ==
    IF u # None THEN inner_insert(st, k, u[1])
    ELSE IF p # None THEN inner_remove(st, k)
    ELSE st

\* ... Ok(prev)
fetch_update_put(t) ==
    /\ pc[t] = "fu_put"
    /\ Commit(fetch_update_store(Store, op[t].key, prev[t], updated[t]))
    /\ ret' = [ret EXCEPT ![t] = prev[t]]
    /\ pc' = [pc EXCEPT ![t] = "fu_ret"]
    /\ GhostSame /\ UNCHANGED <<tracker, lock, op, prev, updated, inst, wset>>

\* the guard is dropped as the call returns
fetch_update_ret(t) ==
    /\ pc[t] = "fu_ret"
    /\ Release(t)
    /\ Return(t)
    /\ StoreSame /\ UNCHANGED <<inst, wset, serial, lastTxInst>>

\* update_fetch(key, f)
call_update_fetch(t) ==
    /\ Call(t, "update_fetch", "uf_lock")
    /\ StoreSame /\ LocalsSame /\ GhostSame /\ UNCHANGED lock

update_fetch_lock(t) ==
    /\ pc[t] = "uf_lock"
    /\ AcquireTxLock(t)
    /\ pc' = [pc EXCEPT ![t] = "uf_get"]
    /\ \E k \in Keys, f \in Closures :
          /\ op' = [op EXCEPT ![t].key = k, ![t].f = f]
          /\ serial' = [serial EXCEPT ![k] = f[serial[k]]]
          /\ expect' = [expect EXCEPT ![t] = f[serial[k]]]
    /\ StoreSame /\ LocalsSame /\ UNCHANGED <<lastTxInst, readAt, heldAtRead>>

update_fetch_get(t) ==
    /\ pc[t] = "uf_get"
    /\ prev' = [prev EXCEPT ![t] = inner_get(versions, op[t].key)]
    /\ updated' = [updated EXCEPT ![t] = op[t].f[inner_get(versions, op[t].key)]]
    /\ pc' = [pc EXCEPT ![t] = "uf_put"]
    /\ StoreSame /\ GhostSame /\ UNCHANGED <<lock, op, ret, inst, wset>>

\* if let Some(value) = &updated { insert } else if prev.is_some() { remove }
update_fetch_store(st, k, p, u) ==
    IF u # None THEN inner_insert(st, k, u[1])
    ELSE IF p # None THEN inner_remove(st, k)
    ELSE st

\* update_fetch returning prev (mutant).
update_fetch_put_prev(t) ==
    /\ pc[t] = "uf_put"
    /\ Commit(update_fetch_store(Store, op[t].key, prev[t], updated[t]))
    /\ ret' = [ret EXCEPT ![t] = prev[t]]
    /\ pc' = [pc EXCEPT ![t] = "uf_ret"]
    /\ GhostSame /\ UNCHANGED <<tracker, lock, op, prev, updated, inst, wset>>

\* ... Ok(updated)
update_fetch_put(t) ==
    /\ pc[t] = "uf_put"
    /\ Commit(update_fetch_store(Store, op[t].key, prev[t], updated[t]))
    /\ ret' = [ret EXCEPT ![t] = updated[t]]
    /\ pc' = [pc EXCEPT ![t] = "uf_ret"]
    /\ GhostSame /\ UNCHANGED <<tracker, lock, op, prev, updated, inst, wset>>

update_fetch_ret(t) ==
    /\ pc[t] = "uf_ret"
    /\ Release(t)
    /\ Return(t)
    /\ StoreSame /\ UNCHANGED <<inst, wset, serial, lastTxInst>>

\* insert(key, value)
call_insert(t) ==
    /\ Call(t, "insert", "ins_lock")
    /\ StoreSame /\ LocalsSame /\ GhostSame /\ UNCHANGED lock

\* insert entering without the lock (mutant).
insert_nolock(t) ==
    /\ pc[t] = "ins_lock"
    /\ seqno < MaxSeqno
    /\ pre' = PreState
    /\ pc' = [pc EXCEPT ![t] = "ins_put"]
    /\ \E k \in Keys, v \in Vals :
          /\ op' = [op EXCEPT ![t].key = k, ![t].val = v]
          /\ serial' = [serial EXCEPT ![k] = Some(v)]
    /\ StoreSame /\ LocalsSame /\ UNCHANGED <<lock, expect, lastTxInst, readAt, heldAtRead>>

\* let _lock = self.tx_lock.lock()
insert_lock(t) ==
    /\ pc[t] = "ins_lock"
    /\ AcquireTxLock(t)
    /\ pc' = [pc EXCEPT ![t] = "ins_put"]
    /\ \E k \in Keys, v \in Vals :
          /\ op' = [op EXCEPT ![t].key = k, ![t].val = v]
          /\ serial' = [serial EXCEPT ![k] = Some(v)]
    /\ StoreSame /\ LocalsSame /\ UNCHANGED <<expect, lastTxInst, readAt, heldAtRead>>

\* self.inner.insert(key, value)
insert_put(t) ==
    /\ pc[t] = "ins_put"
    /\ Commit(inner_insert(Store, op[t].key, op[t].val))
    /\ pc' = [pc EXCEPT ![t] = "ins_ret"]
    /\ LocalsSame /\ GhostSame /\ UNCHANGED <<tracker, lock, op>>

insert_ret(t) ==
    /\ pc[t] = "ins_ret"
    /\ Release(t)
    /\ Return(t)
    /\ StoreSame /\ UNCHANGED <<inst, wset, serial, lastTxInst>>

\* remove(key)
call_remove(t) ==
    /\ Call(t, "remove", "rm_lock")
    /\ StoreSame /\ LocalsSame /\ GhostSame /\ UNCHANGED lock

remove_lock(t) ==
    /\ pc[t] = "rm_lock"
    /\ AcquireTxLock(t)
    /\ pc' = [pc EXCEPT ![t] = "rm_put"]
    /\ \E k \in Keys :
          /\ op' = [op EXCEPT ![t].key = k]
          /\ serial' = [serial EXCEPT ![k] = None]
    /\ StoreSame /\ LocalsSame /\ UNCHANGED <<expect, lastTxInst, readAt, heldAtRead>>

\* self.inner.remove(key)
remove_put(t) ==
    /\ pc[t] = "rm_put"
    /\ Commit(inner_remove(Store, op[t].key))
    /\ pc' = [pc EXCEPT ![t] = "rm_ret"]
    /\ LocalsSame /\ GhostSame /\ UNCHANGED <<tracker, lock, op>>

remove_ret(t) ==
    /\ pc[t] = "rm_ret"
    /\ Release(t)
    /\ Return(t)
    /\ StoreSame /\ UNCHANGED <<inst, wset, serial, lastTxInst>>

\* get that waits for the tx lock (mutant).
get_locked(t) ==
    /\ Call(t, "get", "get_ret")
    /\ tx_lock = {}
    /\ \E k \in Keys :
          /\ op' = [op EXCEPT ![t].name = "get", ![t].key = k]
          /\ ret' = [ret EXCEPT ![t] = inner_get(versions, k)]
    /\ readAt' = [readAt EXCEPT ![t] = seqno]
    /\ heldAtRead' = [heldAtRead EXCEPT ![t] = lock]
    /\ StoreSame /\ UNCHANGED <<lock, prev, updated, inst, wset, serial, expect, pre, lastTxInst>>

\* get(key): self.inner.get(key), no lock taken.
get(t) ==
    /\ Call(t, "get", "get_ret")
    /\ \E k \in Keys :
          /\ op' = [op EXCEPT ![t].name = "get", ![t].key = k]
          /\ ret' = [ret EXCEPT ![t] = inner_get(versions, k)]
    /\ readAt' = [readAt EXCEPT ![t] = seqno]
    /\ heldAtRead' = [heldAtRead EXCEPT ![t] = lock]
    /\ StoreSame /\ UNCHANGED <<lock, prev, updated, inst, wset, serial, expect, pre, lastTxInst>>

\* contains_key(key): self.inner.contains_key(key), no lock taken.
contains_key(t) ==
    /\ Call(t, "contains_key", "get_ret")
    /\ \E k \in Keys :
          /\ op' = [op EXCEPT ![t].name = "contains_key", ![t].key = k]
          /\ ret' = [ret EXCEPT ![t] = inner_get(versions, k) # None]
    /\ readAt' = [readAt EXCEPT ![t] = seqno]
    /\ heldAtRead' = [heldAtRead EXCEPT ![t] = lock]
    /\ StoreSame /\ UNCHANGED <<lock, prev, updated, inst, wset, serial, expect, pre, lastTxInst>>

get_ret(t) ==
    /\ pc[t] = "get_ret"
    /\ Return(t)
    /\ StoreSame /\ UNCHANGED <<lock, inst, wset, serial, pre, lastTxInst>>

\* ------------------------------------------------------------ TxKeyspace
\* write_tx (single_writer_tx)
call_write_tx(t) ==
    /\ Call(t, "write_tx", "wtx_lock")
    /\ StoreSame /\ LocalsSame /\ GhostSame /\ UNCHANGED lock

\* let guard = self.lock.lock()
write_tx_lock(t) ==
    /\ pc[t] = "wtx_lock"
    /\ Acquire(t)
    /\ pc' = [pc EXCEPT ![t] = "wtx_instant"]
    /\ StoreSame /\ LocalsSame
    /\ UNCHANGED <<op, serial, expect, lastTxInst, readAt, heldAtRead>>

\* let instant = self.inner.instant();
write_tx_instant(t) ==
    /\ pc[t] = "wtx_instant"
    /\ inst' = [inst EXCEPT ![t] = seqno]
    /\ pc' = [pc EXCEPT ![t] = "wtx_nonce"]
    /\ StoreSame /\ GhostSame
    /\ UNCHANGED <<lock, op, prev, updated, ret, wset>>

\* write_tx reading the instant before it takes the lock (mutant).
write_tx_stale(t) ==
    \/ /\ pc[t] = "wtx_lock"
       /\ inst' = [inst EXCEPT ![t] = seqno]
       /\ pc' = [pc EXCEPT ![t] = "wtx_instant"]
       /\ StoreSame /\ GhostSame
       /\ UNCHANGED <<lock, op, prev, updated, ret, wset>>
    \/ /\ pc[t] = "wtx_instant"
       /\ Acquire(t)
       /\ pc' = [pc EXCEPT ![t] = "wtx_nonce"]
       /\ StoreSame /\ LocalsSame
       /\ UNCHANGED <<op, serial, expect, lastTxInst, readAt, heldAtRead>>

\* write_tx up to the point where the caller holds the lock and the instant:
\* the lock first, then the instant.
write_tx(t) == write_tx_lock(t) \/ write_tx_instant(t)

\* WriteTransaction::new(.., SnapshotNonce::new(instant, tracker), guard)
write_tx_nonce(t) ==
    /\ pc[t] = "wtx_nonce"
    /\ tracker' = tracker_register(inst[t])
    /\ wset' = [wset EXCEPT ![t] = NoWrites]
    /\ pc' = [pc EXCEPT ![t] = "wtx"]
    /\ GhostSame
    /\ UNCHANGED <<seqno, versions, written, lock, op, prev, updated, ret, inst>>

\* WriteTransaction::insert / remove: buffered until commit.
tx_insert(t) ==
    /\ pc[t] = "wtx"
    /\ \E k \in Keys, v \in Vals : wset' = [wset EXCEPT ![t][k] = {Some(v)}]
    /\ StoreSame /\ GhostSame /\ UNCHANGED <<lock, pc, op, prev, updated, ret, inst>>

tx_remove(t) ==
    /\ pc[t] = "wtx"
    /\ \E k \in Keys : wset' = [wset EXCEPT ![t][k] = {None}]
    /\ StoreSame /\ GhostSame /\ UNCHANGED <<lock, pc, op, prev, updated, ret, inst>>

\* The versions a commit of write set w publishes, all stamped i.
TxVersions(w, i) ==
    {[key |-> x[1], seqno |-> i, value |-> x[2]] :
        x \in {y \in Keys \X Opt : y[2] \in w[y[1]]}}

\* The transaction ends: the nonce and the guard are dropped.
TxEnd(t) ==
    /\ tracker' = tracker_release(inst[t])
    /\ Release(t)
    /\ lastTxInst' = inst[t]
    /\ wset' = [wset EXCEPT ![t] = NoWrites]
    /\ inst' = [inst EXCEPT ![t] = 0]
    /\ Return(t)

\* WriteTransaction::commit: the buffered writes are published as one commit
\* with one new instant.
tx_commit(t) ==
    /\ pc[t] = "wtx"
    /\ IF \A k \in Keys : wset[t][k] = {}
       THEN UNCHANGED <<seqno, versions, written>>
       ELSE Commit([versions |-> versions \cup TxVersions(wset[t], seqno + 1),
                    seqno |-> seqno + 1])
    /\ serial' = [k \in Keys |-> IF wset[t][k] = {} THEN serial[k]
                                 ELSE CHOOSE o \in wset[t][k] : TRUE]
    /\ TxEnd(t)

\* WriteTransaction::rollback / drop: nothing is published.
tx_rollback(t) ==
    /\ pc[t] = "wtx"
    /\ TxEnd(t)
    /\ UNCHANGED <<seqno, versions, written, serial>>

\* read_tx: self.inner.instant() is read first, with no lock held ...
read_tx_instant(t) ==
    /\ Call(t, "read_tx", "rtx_nonce")
    /\ inst' = [inst EXCEPT ![t] = seqno]
    /\ StoreSame /\ GhostSame /\ UNCHANGED <<lock, prev, updated, ret, wset>>

\* ... then SnapshotNonce::new registers it with the tracker.
read_tx_nonce(t) ==
    /\ pc[t] = "rtx_nonce"
    /\ tracker' = tracker_register(inst[t])
    /\ pc' = [pc EXCEPT ![t] = "rtx"]
    /\ GhostSame
    /\ UNCHANGED <<seqno, versions, written, lock, op, prev, updated, ret, inst, wset>>

read_tx(t) == read_tx_instant(t) \/ read_tx_nonce(t)

\* ReadTransaction::get: a read at the transaction's instant.
rtx_get(t) ==
    /\ pc[t] = "rtx"
    /\ \E k \in Keys :
          /\ op' = [op EXCEPT ![t].key = k]
          /\ ret' = [ret EXCEPT ![t] = snapshot_get(versions, k, inst[t])]
    /\ StoreSame /\ GhostSame /\ UNCHANGED <<lock, pc, prev, updated, inst, wset>>

\* The read transaction is dropped, and its nonce with it.
rtx_drop(t) ==
    /\ pc[t] = "rtx"
    /\ tracker' = tracker_release(inst[t])
    /\ inst' = [inst EXCEPT ![t] = 0]
    /\ Return(t)
    /\ UNCHANGED <<seqno, versions, written, lock, wset, serial, pre, lastTxInst>>

\* Background compaction: a version is dropped once a newer version of its
\* key is at or below the tracker's watermark.
compact ==
    /\ \E v \in versions :
          /\ \E w \in versions :
                w.key = v.key /\ w.seqno > v.seqno /\ w.seqno <= Watermark
          /\ versions' = versions \ {v}
    /\ UNCHANGED <<seqno, written, tracker, lock, pc, op>>
    /\ LocalsSame /\ GhostSame

\* --------------------------------------------------- TxKeyspace, SSI build
\* TxKeyspace::open: the oracle's lock is free.
SsiIdle ==
    /\ write_serialize_lock = {}
    /\ rset = [t \in Threads |-> {}]
    /\ publishing = {}
    /\ outcome = [t \in Threads |-> "none"]
    /\ commits = {}

SsiSame == UNCHANGED <<rset, publishing, outcome, commits>>

\* (A transaction is begun only while the instant is below MaxSeqno.)
call_ssi_write_tx(t) ==
    /\ Call(t, "write_tx", "s_wtx_lock")
    /\ seqno < MaxSeqno
    /\ StoreSame /\ LocalsSame /\ GhostSame /\ UNCHANGED lock
    /\ UNCHANGED svars

\* let _guard = self.orc.write_serialize_lock.lock();
ssi_write_tx_lock(t) ==
    /\ pc[t] = "s_wtx_lock"
    /\ write_serialize_lock = {}
    /\ write_serialize_lock' = {t}
    /\ pc' = [pc EXCEPT ![t] = "s_wtx_instant"]
    /\ StoreSame /\ LocalsSame /\ GhostSame /\ UNCHANGED <<lock, op>>
    /\ SsiSame

\* write_tx reading the instant without the oracle's lock (mutant).
ssi_write_tx_instant_unlocked(t) ==
    /\ pc[t] \in {"s_wtx_lock", "s_wtx_instant"}
    /\ inst' = [inst EXCEPT ![t] = seqno]
    /\ write_serialize_lock' = write_serialize_lock \ {t}
    /\ pc' = [pc EXCEPT ![t] = "s_wtx_nonce"]
    /\ StoreSame /\ GhostSame /\ UNCHANGED <<lock, op, prev, updated, ret, wset>>
    /\ SsiSame

\* self.inner.instant() is the value of the block that holds the guard: the
\* instant is read and _guard is dropped.
ssi_write_tx_instant(t) ==
    /\ pc[t] = "s_wtx_instant"
    /\ inst' = [inst EXCEPT ![t] = seqno]
    /\ write_serialize_lock' = write_serialize_lock \ {t}
    /\ pc' = [pc EXCEPT ![t] = "s_wtx_nonce"]
    /\ StoreSame /\ GhostSame /\ UNCHANGED <<lock, op, prev, updated, ret, wset>>
    /\ SsiSame

\* WriteTransaction::new(.., SnapshotNonce::new(instant, tracker))
ssi_write_tx_nonce(t) ==
    /\ pc[t] = "s_wtx_nonce"
    /\ tracker' = tracker_register(inst[t])
    /\ wset' = [wset EXCEPT ![t] = NoWrites]
    /\ rset' = [rset EXCEPT ![t] = {}]
    /\ pc' = [pc EXCEPT ![t] = "wtx"]
    /\ GhostSame
    /\ UNCHANGED <<seqno, versions, written, lock, op, prev, updated, ret, inst>>
    /\ UNCHANGED <<write_serialize_lock, publishing, outcome, commits>>

\* WriteTransaction::get: the conflict checker records the key as read.
ssi_tx_get(t) ==
    /\ pc[t] = "wtx"
    /\ \E k \in Keys : rset' = [rset EXCEPT ![t] = @ \cup {k}]
    /\ StoreSame /\ LocalsSame /\ GhostSame /\ UNCHANGED <<lock, pc, op>>
    /\ UNCHANGED <<write_serialize_lock, publishing, outcome, commits>>

\* Conflict: a key read by the transaction has a committed write whose commit
\* instant is greater than the transaction's instant.
Conflict(t) == \E v \in written : v.key \in rset[t] /\ v.seqno > inst[t]

\* commit enters the oracle's lock.  (A commit is admitted only while the
\* instant is below MaxSeqno.)
ssi_commit_lock(t) ==
    /\ pc[t] = "wtx"
    /\ seqno < MaxSeqno
    /\ write_serialize_lock = {}
    /\ write_serialize_lock' = {t}
    /\ pre' = PreState
    /\ pc' = [pc EXCEPT ![t] = "c_validate"]
    /\ StoreSame /\ LocalsSame
    /\ UNCHANGED <<lock, op, serial, expect, lastTxInst, readAt, heldAtRead>>
    /\ SsiSame

\* commit validating the read set before it has the oracle's lock (mutant).
ssi_commit_validate_early(t) ==
    /\ pc[t] = "wtx"
    /\ ~Conflict(t)
    /\ seqno < MaxSeqno
    /\ write_serialize_lock = {}
    /\ pc' = [pc EXCEPT ![t] = "c_instant"]
    /\ pre' = PreState
    /\ StoreSame /\ LocalsSame
    /\ UNCHANGED <<lock, op, serial, expect, lastTxInst, readAt, heldAtRead>>
    /\ UNCHANGED svars

\* The read set is validated against the committed writes since the
\* transaction's instant.
ssi_commit_validate(t) ==
    /\ pc[t] = "c_validate"
    /\ IF Conflict(t)
       THEN /\ outcome' = [outcome EXCEPT ![t] = "conflict"]
            /\ pc' = [pc EXCEPT ![t] = "c_unlock"]
       ELSE /\ pc' = [pc EXCEPT ![t] = "c_instant"]
            /\ UNCHANGED outcome
    /\ StoreSame /\ LocalsSame /\ GhostSame /\ UNCHANGED <<lock, op>>
    /\ UNCHANGED <<write_serialize_lock, rset, publishing, commits>>

\* On success the commit obtains its commit instant ...
ssi_commit_instant(t) ==
    /\ pc[t] = "c_instant"
    /\ seqno' = seqno + 1
    /\ publishing' = TxVersions(wset[t], seqno + 1)
    /\ commits' = commits \cup {[instant |-> inst[t], commit |-> seqno + 1,
                                  reads |-> rset[t],
                                  versions |-> TxVersions(wset[t], seqno + 1)]}
    /\ pc' = [pc EXCEPT ![t] = "c_publish"]
    /\ LocalsSame /\ GhostSame /\ UNCHANGED <<versions, written, tracker, lock, op>>
    /\ UNCHANGED <<write_serialize_lock, rset, outcome>>

\* ... and publishes its writes, still under the lock.
ssi_commit_publish(t) ==
    /\ pc[t] = "c_publish"
    /\ IF publishing = {}
       THEN /\ outcome' = [outcome EXCEPT ![t] = "ok"]
            /\ pc' = [pc EXCEPT ![t] = "c_unlock"]
            /\ UNCHANGED <<versions, written, publishing>>
       ELSE /\ \E v \in publishing :
                  /\ versions' = versions \cup {v}
                  /\ written' = written \cup {v}
                  /\ publishing' = publishing \ {v}
            /\ UNCHANGED <<pc, outcome>>
    /\ LocalsSame /\ GhostSame /\ UNCHANGED <<seqno, tracker, lock, op>>
    /\ UNCHANGED <<write_serialize_lock, rset, commits>>

\* The write transaction ends: its nonce is dropped.
SsiTxEnd(t) ==
    /\ tracker' = tracker_release(inst[t])
    /\ wset' = [wset EXCEPT ![t] = NoWrites]
    /\ rset' = [rset EXCEPT ![t] = {}]
    /\ inst' = [inst EXCEPT ![t] = 0]
    /\ outcome' = [outcome EXCEPT ![t] = "none"]
    /\ Return(t)

\* commit leaves the lock and returns its outcome.
ssi_commit_unlock(t) ==
    /\ pc[t] = "c_unlock"
    /\ write_serialize_lock' = write_serialize_lock \ {t}
    /\ pre' = NoPre
    /\ SsiTxEnd(t)
    /\ UNCHANGED <<seqno, versions, written, lock, serial, lastTxInst>>
    /\ UNCHANGED <<publishing, commits>>

\* WriteTransaction::rollback / drop.
ssi_rollback(t) ==
    /\ pc[t] = "wtx"
    /\ SsiTxEnd(t)
    /\ UNCHANGED <<seqno, versions, written, lock, serial, pre, lastTxInst>>
    /\ UNCHANGED <<write_serialize_lock, publishing, commits>>

\* -------------------------------------------------------- segment writer
\* The input values: key, seqno, the tombstone flag and Value::size(), the
\* length of the key (1) and of the value (1, and 0 for a tombstone).
WKeys == {1, 2}
Values ==
    {[key |-> k, seqno |-> n, is_tombstone |-> tb, size |-> IF tb THEN 1 ELSE 2] :
        k \in WKeys, n \in 0..SeqNoMAX, tb \in BOOLEAN}

\* The I/O step of a call that fails, if any.
Faults == {"none", "write_all", "register_block", "index_finalize", "flush", "sync_all"}

RECURSIVE SumSize(_)
SumSize(items) ==
    IF items = << >> THEN 0 ELSE Head(items).size + SumSize(Tail(items))

\* bytes.len() of the serialized, LZ4-framed block: the 4-byte length prefix
\* and the payload. `as u32` leaves a length below 2^32 as it is, and a block
\* of at most MaxLen values of size 2 is far below it.
bytes_written(items) == 4 + SumSize(items)

\* Writer::new
Writer_new(evict, bs) ==
    [evict_tombstones |-> evict, block_size |-> bs,
     blocks |-> << >>,            \* block_writer: the blocks appended to "blocks"
     index |-> << >>,             \* index_writer: the registered blocks
     index_finalized |-> FALSE, synced |-> FALSE,
     chunk |-> << >>,
     block_count |-> 0, written_item_count |-> 0, file_pos |-> 0,
     uncompressed_size |-> 0,
     first_key |-> None, last_key |-> None,
     chunk_size |-> 0, tombstone_count |-> 0,
     lowest_seqno |-> SeqNoMAX, highest_seqno |-> 0]

\* write_block that leaves the flushed records in the chunk (mutant).
write_block_keep(w, fault) ==
    LET len == bytes_written(w.chunk)
    IN  [w |-> [w EXCEPT
                  !.uncompressed_size = @ + SumSize(w.chunk),
                  !.blocks = Append(@, [items |-> w.chunk, len |-> len]),
                  !.index = Append(@, [first_key |-> w.chunk[1].key,
                                       offset |-> w.file_pos, len |-> len]),
                  !.file_pos = @ + len,
                  !.written_item_count = @ + Len(w.chunk),
                  !.block_count = @ + 1],
         ok |-> TRUE]

\* write_block registering the block at the offset after it (mutant).
write_block_post_offset(w, fault) ==
    LET len == bytes_written(w.chunk)
    IN  [w |-> [w EXCEPT
                  !.uncompressed_size = @ + SumSize(w.chunk),
                  !.blocks = Append(@, [items |-> w.chunk, len |-> len]),
                  !.index = Append(@, [first_key |-> w.chunk[1].key,
                                       offset |-> w.file_pos + len, len |-> len]),
                  !.file_pos = @ + len,
                  !.written_item_count = @ + Len(w.chunk),
                  !.block_count = @ + 1,
                  !.chunk = << >>],
         ok |-> TRUE]

\* Writer::write_block, with the I/O step `fault` failing.
write_block(w, fault) ==
    LET w1 == [w EXCEPT !.uncompressed_size = @ + SumSize(w.chunk)]
        len == bytes_written(w.chunk)
        w2 == [w1 EXCEPT !.blocks = Append(@, [items |-> w.chunk, len |-> len])]
        w3 == [w2 EXCEPT
                 !.index = Append(@, [first_key |-> w.chunk[1].key,
                                      offset |-> w.file_pos, len |-> len]),
                 !.file_pos = @ + len,
                 !.written_item_count = @ + Len(w.chunk),
                 !.block_count = @ + 1,
                 !.chunk = << >>]
    IN  IF fault = "write_all" THEN [w |-> w1, ok |-> FALSE]
        ELSE IF fault = "register_block" THEN [w |-> w2, ok |-> FALSE]
        ELSE [w |-> w3, ok |-> TRUE]

\* The metadata step setting first_key on every call (mutant).
write_meta_overwrite(w, item) ==
    [w EXCEPT
       !.first_key = Some(item.key),
       !.last_key = Some(item.key),
       !.lowest_seqno = IF @ > item.seqno THEN item.seqno ELSE @,
       !.highest_seqno = IF @ < item.seqno THEN item.seqno ELSE @]

\* A metadata step that takes every value's seqno as the lowest (mutant).
write_meta_lowest_last(w, item) ==
    [w EXCEPT
       !.first_key = IF @ = None THEN Some(item.key) ELSE @,
       !.last_key = Some(item.key),
       !.lowest_seqno = item.seqno,
       !.highest_seqno = IF @ < item.seqno THEN item.seqno ELSE @]

\* The metadata step of Writer::write.
write_meta(w, item) ==
    [w EXCEPT
       !.first_key = IF @ = None THEN Some(item.key) ELSE @,
       !.last_key = Some(item.key),
       !.lowest_seqno = IF @ > item.seqno THEN item.seqno ELSE @,
       !.highest_seqno = IF @ < item.seqno THEN item.seqno ELSE @]

\* write flushing only when the accumulator exceeds block_size (mutant).
write_gt(w, item, fault) ==
    IF item.is_tombstone /\ w.evict_tombstones THEN [w |-> w, ok |-> TRUE]
    ELSE
      LET w1 == [w EXCEPT !.tombstone_count = IF item.is_tombstone THEN @ + 1 ELSE @]
          w2 == [w1 EXCEPT !.chunk_size = @ + item.size, !.chunk = Append(@, item)]
          r == write_block(w2, fault)
      IN  IF w2.chunk_size > w2.block_size
          THEN IF r.ok
               THEN [w |-> write_meta([r.w EXCEPT !.chunk_size = 0], item), ok |-> TRUE]
               ELSE [w |-> r.w, ok |-> FALSE]
          ELSE [w |-> write_meta(w2, item), ok |-> TRUE]

\* write counting a tombstone before it looks at evict_tombstones (mutant).
write_count_evicted(w, item, fault) ==
    LET c == [w EXCEPT !.tombstone_count = IF item.is_tombstone THEN @ + 1 ELSE @]
    IN  IF item.is_tombstone /\ w.evict_tombstones THEN [w |-> c, ok |-> TRUE]
        ELSE
          LET w2 == [c EXCEPT !.chunk_size = @ + item.size, !.chunk = Append(@, item)]
              r == write_block(w2, fault)
          IN  IF w2.chunk_size >= w2.block_size
              THEN IF r.ok
                   THEN [w |-> write_meta([r.w EXCEPT !.chunk_size = 0], item), ok |-> TRUE]
                   ELSE [w |-> r.w, ok |-> FALSE]
              ELSE [w |-> write_meta(w2, item), ok |-> TRUE]

\* Writer::write
write(w, item, fault) ==
    IF item.is_tombstone /\ w.evict_tombstones THEN [w |-> w, ok |-> TRUE]
    ELSE
      LET w1 == [w EXCEPT !.tombstone_count = IF item.is_tombstone THEN @ + 1 ELSE @]
          w2 == [w1 EXCEPT !.chunk_size = @ + item.size, !.chunk = Append(@, item)]
          r == write_block(w2, fault)
      IN  IF w2.chunk_size >= w2.block_size
          THEN IF r.ok
               THEN [w |-> write_meta([r.w EXCEPT !.chunk_size = 0], item), ok |-> TRUE]
               ELSE [w |-> r.w, ok |-> FALSE]
          ELSE [w |-> write_meta(w2, item), ok |-> TRUE]

\* Writer::finalize
finalize(w, fault) ==
    LET r == IF w.chunk # << >> THEN write_block(w, fault) ELSE [w |-> w, ok |-> TRUE]
        w1 == [r.w EXCEPT !.index_finalized = TRUE]
        w2 == [w1 EXCEPT !.synced = TRUE]
    IN  IF ~r.ok THEN r
        ELSE IF fault = "index_finalize" THEN [w |-> r.w, ok |-> FALSE]
        ELSE IF fault = "flush" THEN [w |-> w1, ok |-> FALSE]
        ELSE IF fault = "sync_all" THEN [w |-> w1, ok |-> FALSE]
        ELSE [w |-> w2, ok |-> TRUE]

\* The blocks file: the offset at which block i starts.
RECURSIVE BlockStart(_, _)
BlockStart(bs, i) == IF i = 1 THEN 0 ELSE BlockStart(bs, i - 1) + bs[i - 1].len

\* The sparse index as its reader uses it: the registered entries with the
\* greatest first_key <= k (more than one when a first_key was registered
\* more than once), or none when k lies outside [first_key, last_key].
IndexCandidates(w, k) ==
    {i \in 1..Len(w.index) :
        /\ w.index[i].first_key <= k
        /\ \A j \in 1..Len(w.index) :
              w.index[j].first_key <= k => w.index[j].first_key <= w.index[i].first_key}

index_lookup(w, k) ==
    IF w.first_key = None \/ k < w.first_key[1] \/ k > w.last_key[1]
    THEN {}
    ELSE IndexCandidates(w, k)

\* The caller's sort order: key ascending, seqno descending, no (key, seqno)
\* twice.
Follows(a, b) == a.key < b.key \/ (a.key = b.key /\ a.seqno > b.seqno)

WriterIdle ==
    /\ writer = Writer_new(FALSE, 0)
    /\ input = << >>
    /\ failed = 0
    /\ phase = "writing"

WriterInit ==
    /\ \E evict \in BOOLEAN, bs \in 0..MaxBlockSize : writer = Writer_new(evict, bs)
    /\ input = << >>
    /\ failed = 0
    /\ phase = "writing"

\* A call of write with the next value of the sorted input.
Write ==
    /\ phase = "writing"
    /\ Len(input) < MaxLen
    /\ \E item \in Values, fault \in {"none", "write_all", "register_block"} :
          /\ IF input = << >> THEN TRUE ELSE Follows(input[Len(input)], item)
          /\ fault = "none" \/ failed < MaxFaults
          /\ writer' = write(writer, item, fault).w
          /\ failed' = IF write(writer, item, fault).ok THEN failed ELSE failed + 1
          /\ input' = Append(input, item)
    /\ UNCHANGED phase

\* A call of finalize.
Finalize ==
    /\ phase = "writing"
    /\ \E fault \in Faults :
          /\ fault = "none" \/ failed < MaxFaults
          /\ writer' = finalize(writer, fault).w
          /\ failed' = IF finalize(writer, fault).ok THEN failed ELSE failed + 1
          /\ phase' = IF finalize(writer, fault).ok THEN "finalized" ELSE "writing"
    /\ UNCHANGED input

\* ------------------------------------------------------- partition name
\* VALID_CHARACTERS, the code points of the literal's 66 characters.
VALID_CHARACTERS ==
    <<
      97, 98, 99, 100, 101, 102, 103, 104, 105, 106, 107, 108, 109, 110, 111, 112,
      113, 114, 115, 116, 117, 118, 119, 120, 121, 122, 65, 66, 67, 68, 69, 70,
      71, 72, 73, 74, 75, 76, 77, 78, 79, 80, 81, 82, 83, 84, 85, 86,
      87, 88, 89, 90, 48, 49, 50, 51, 52, 53, 54, 55, 56, 57, 95, 45,
      46, 35 >>

\* u8::MAX, the greatest length u8::try_from accepts.
U8_MAX == 255

\* str::contains(char)
contains(str, c) == \E i \in 1..Len(str) : str[i] = c

\* char::len_utf8
len_utf8(c) == IF c < 128 THEN 1 ELSE IF c < 2048 THEN 2 ELSE IF c < 65536 THEN 3 ELSE 4

\* str::len, the length in bytes: the sum of the characters' encoded lengths
\* (summed by halves, which keeps the evaluation shallow for a long name).
RECURSIVE str_len(_)
str_len(s) ==
    IF s = << >> THEN 0
    ELSE IF Len(s) = 1 THEN len_utf8(s[1])
    ELSE LET h == Len(s) \div 2
         IN  str_len(SubSeq(s, 1, h)) + str_len(SubSeq(s, h + 1, Len(s)))

\* is_valid_partition_name accepting lengths up to 256 (mutant).
is_valid_partition_name_256(s) ==
    IF s = << >> THEN FALSE
    ELSE IF str_len(s) > U8_MAX + 1 THEN FALSE
    ELSE \A i \in 1..Len(s) : contains(VALID_CHARACTERS, s[i])

\* is_valid_partition_name
is_valid_partition_name(s) ==
    IF s = << >> THEN FALSE
    ELSE IF str_len(s) > U8_MAX THEN FALSE
    ELSE \A i \in 1..Len(s) : contains(VALID_CHARACTERS, s[i])

\* The names tried: a character repeated up to MaxRun times, then at most
\* one other character.  The characters are NUL, space, # - . / 0 9 : A Z _
\* a z and the two-byte e-acute.
NameChars == {0, 32, 35, 45, 46, 47, 48, 57, 58, 65, 90, 95, 97, 122, 233}

Names ==
    {[i \in 1..n |-> c] \o tail :
        c \in NameChars, n \in 0..MaxRun,
        tail \in {<< >>} \cup {<<d>> : d \in NameChars}}

NameIdle ==
    /\ pname = << >>
    /\ valid = << >>

NameInit ==
    /\ pname \in Names
    /\ valid = << >>

\* A call of is_valid_partition_name(pname).
Validate ==
    /\ valid = << >>
    /\ valid' = <<is_valid_partition_name(pname)>>
    /\ UNCHANGED pname

\* ------------------------------------------------------------------ Spec
Init == TxInit /\ WriterIdle /\ NameIdle /\ SsiIdle

Next ==
    \/ \E t \in Threads :
          \/ call_fetch_update(t) /\ UNCHANGED nontx
          \/ take(t) /\ UNCHANGED nontx
          \/ fetch_update_lock(t) /\ UNCHANGED nontx
          \/ fetch_update_get(t) /\ UNCHANGED nontx
          \/ fetch_update_put(t) /\ UNCHANGED nontx
          \/ fetch_update_ret(t) /\ UNCHANGED nontx
          \/ call_update_fetch(t) /\ UNCHANGED nontx
          \/ update_fetch_lock(t) /\ UNCHANGED nontx
          \/ update_fetch_get(t) /\ UNCHANGED nontx
          \/ update_fetch_put(t) /\ UNCHANGED nontx
          \/ update_fetch_ret(t) /\ UNCHANGED nontx
          \/ call_insert(t) /\ UNCHANGED nontx
          \/ insert_lock(t) /\ UNCHANGED nontx
          \/ insert_put(t) /\ UNCHANGED nontx
          \/ insert_ret(t) /\ UNCHANGED nontx
          \/ call_remove(t) /\ UNCHANGED nontx
          \/ remove_lock(t) /\ UNCHANGED nontx
          \/ remove_put(t) /\ UNCHANGED nontx
          \/ remove_ret(t) /\ UNCHANGED nontx
          \/ get(t) /\ UNCHANGED nontx
          \/ contains_key(t) /\ UNCHANGED nontx
          \/ get_ret(t) /\ UNCHANGED nontx
          \/ call_write_tx(t) /\ UNCHANGED nontx
          \/ write_tx(t) /\ UNCHANGED nontx
          \/ write_tx_nonce(t) /\ UNCHANGED nontx
          \/ tx_insert(t) /\ UNCHANGED nontx
          \/ tx_remove(t) /\ UNCHANGED nontx
          \/ tx_commit(t) /\ UNCHANGED nontx
          \/ tx_rollback(t) /\ UNCHANGED nontx
          \/ read_tx(t) /\ UNCHANGED nontx
          \/ rtx_get(t) /\ UNCHANGED nontx
          \/ rtx_drop(t) /\ UNCHANGED nontx
    \/ compact /\ UNCHANGED nontx

Spec == Init /\ [][Next]_vars

\* The partition handle's operations alone, with compaction in the background.
RMWNext ==
    \/ \E t \in Threads :
          \/ call_fetch_update(t) /\ UNCHANGED nontx
          \/ take(t) /\ UNCHANGED nontx
          \/ fetch_update_lock(t) /\ UNCHANGED nontx
          \/ fetch_update_get(t) /\ UNCHANGED nontx
          \/ fetch_update_put(t) /\ UNCHANGED nontx
          \/ fetch_update_ret(t) /\ UNCHANGED nontx
          \/ call_update_fetch(t) /\ UNCHANGED nontx
          \/ update_fetch_lock(t) /\ UNCHANGED nontx
          \/ update_fetch_get(t) /\ UNCHANGED nontx
          \/ update_fetch_put(t) /\ UNCHANGED nontx
          \/ update_fetch_ret(t) /\ UNCHANGED nontx
          \/ call_insert(t) /\ UNCHANGED nontx
          \/ insert_lock(t) /\ UNCHANGED nontx
          \/ insert_put(t) /\ UNCHANGED nontx
          \/ insert_ret(t) /\ UNCHANGED nontx
          \/ call_remove(t) /\ UNCHANGED nontx
          \/ remove_lock(t) /\ UNCHANGED nontx
          \/ remove_put(t) /\ UNCHANGED nontx
          \/ remove_ret(t) /\ UNCHANGED nontx
    \/ compact /\ UNCHANGED nontx

RMWSpec == Init /\ [][RMWNext]_vars

\* The writers alone: partition operations and write transactions.
WritersNext ==
    \E t \in Threads :
          \/ call_fetch_update(t) /\ UNCHANGED nontx
          \/ take(t) /\ UNCHANGED nontx
          \/ fetch_update_lock(t) /\ UNCHANGED nontx
          \/ fetch_update_get(t) /\ UNCHANGED nontx
          \/ fetch_update_put(t) /\ UNCHANGED nontx
          \/ fetch_update_ret(t) /\ UNCHANGED nontx
          \/ call_update_fetch(t) /\ UNCHANGED nontx
          \/ update_fetch_lock(t) /\ UNCHANGED nontx
          \/ update_fetch_get(t) /\ UNCHANGED nontx
          \/ update_fetch_put(t) /\ UNCHANGED nontx
          \/ update_fetch_ret(t) /\ UNCHANGED nontx
          \/ call_insert(t) /\ UNCHANGED nontx
          \/ insert_lock(t) /\ UNCHANGED nontx
          \/ insert_put(t) /\ UNCHANGED nontx
          \/ insert_ret(t) /\ UNCHANGED nontx
          \/ call_remove(t) /\ UNCHANGED nontx
          \/ remove_lock(t) /\ UNCHANGED nontx
          \/ remove_put(t) /\ UNCHANGED nontx
          \/ remove_ret(t) /\ UNCHANGED nontx
          \/ call_write_tx(t) /\ UNCHANGED nontx
          \/ write_tx(t) /\ UNCHANGED nontx
          \/ write_tx_nonce(t) /\ UNCHANGED nontx
          \/ tx_insert(t) /\ UNCHANGED nontx
          \/ tx_remove(t) /\ UNCHANGED nontx
          \/ tx_commit(t) /\ UNCHANGED nontx
          \/ tx_rollback(t) /\ UNCHANGED nontx

\* A step of a call in progress: the lock is taken when the mutex grants it,
\* the steps under the lock follow, and a write transaction is committed or
\* dropped.  (Beginning a call, and writing within a transaction, are up to
\* the caller.)
Progress(t) ==
    \/ fetch_update_lock(t) \/ fetch_update_get(t) \/ fetch_update_put(t)
    \/ fetch_update_ret(t) \/ update_fetch_lock(t) \/ update_fetch_get(t)
    \/ update_fetch_put(t) \/ update_fetch_ret(t) \/ insert_lock(t)
    \/ insert_put(t) \/ insert_ret(t) \/ remove_lock(t)
    \/ remove_put(t) \/ remove_ret(t) \/ write_tx(t)
    \/ write_tx_nonce(t) \/ tx_commit(t) \/ tx_rollback(t)

\* The scheduler runs every thread that can run.  std::sync::Mutex promises
\* no order among the threads that wait for it: a thread whose lock() is
\* possible only from time to time may be passed over each time.
Fairness == \A t \in Threads : WF_vars(Progress(t) /\ UNCHANGED nontx)

LiveSpec == Init /\ [][WritersNext]_vars /\ Fairness

\* The same with a mutex that serves every waiting thread (a fair mutex).
FairMutex == \A t \in Threads : SF_vars(Progress(t) /\ UNCHANGED nontx)

FairLiveSpec == Init /\ [][WritersNext]_vars /\ FairMutex

\* The SSI build: write transactions and their commits through the oracle.
\* The writes are removals: the conflict checker looks at keys, not values.
SsiNext ==
    \E t \in Threads :
          \/ call_ssi_write_tx(t) /\ UNCHANGED nonssi
          \/ ssi_write_tx_lock(t) /\ UNCHANGED nonssi
          \/ ssi_write_tx_instant(t) /\ UNCHANGED nonssi
          \/ ssi_write_tx_nonce(t) /\ UNCHANGED nonssi
          \/ ssi_tx_get(t) /\ UNCHANGED nonssi
          \/ ssi_commit_lock(t) /\ UNCHANGED nonssi
          \/ ssi_commit_validate(t) /\ UNCHANGED nonssi
          \/ ssi_commit_instant(t) /\ UNCHANGED nonssi
          \/ ssi_commit_publish(t) /\ UNCHANGED nonssi
          \/ ssi_commit_unlock(t) /\ UNCHANGED nonssi
          \/ ssi_rollback(t) /\ UNCHANGED nonssi
          \/ tx_remove(t) /\ UNCHANGED nontx

SsiSpec == Init /\ [][SsiNext]_vars

\* One segment writer, from Writer::new to finalize.
WriterNext ==
    \/ Write /\ UNCHANGED nonwriter
    \/ Finalize /\ UNCHANGED nonwriter

WriterStart == TxInit /\ WriterInit /\ NameIdle /\ SsiIdle

WriterSpec == WriterStart /\ [][WriterNext]_vars

\* The name validator applied to each of the names.
NameStart == TxInit /\ WriterIdle /\ NameInit /\ SsiIdle

NameNext == Validate /\ UNCHANGED nonname

NameSpec == NameStart /\ [][NameNext]_vars

\* ---------------------------------------------------------------- claims
\* A partition operation that holds the lock and has not yet written.
Writing(t) == pc[t] \in {"fu_get", "fu_put", "uf_get", "uf_put", "ins_put", "rm_put"}

\* C1: concurrent fetch_update / update_fetch / insert / remove calls behave
\* as the serial execution of the calls in lock order: each call returns what
\* the serial execution returns, and once no call is between taking the lock
\* and writing, the stored values are those of the serial execution (so N
\* concurrent increments add N).
C1_SerialOrder ==
    /\ (\A t \in Threads : ~Writing(t)) => LatestMap(versions) = serial
    /\ \A t \in Threads : pc[t] \in {"fu_ret", "uf_ret"} => ret[t] = expect[t]

\* Two increments of one key contended for the lock; the second returned 1
\* and left 2, while another call waits for the lock.
C1_Witness ==
    \E t \in Threads, u \in Threads :
        /\ t # u
        /\ pc[t] = "fu_ret" /\ op[t].f = FInc
        /\ ret[t] = Some(1) /\ inner_get(versions, op[t].key) = Some(2)
        /\ pc[u] \in {"fu_lock", "uf_lock", "ins_lock", "rm_lock"}

\* C2: a read transaction with instant t reads, for every key and as long as
\* it lives, the value of the latest commit with instant <= t, whatever was
\* committed or compacted since.
C2_SnapshotStable ==
    \A t \in Threads : pc[t] = "rtx" =>
        \A k \in Keys :
            snapshot_get(versions, k, inst[t]) = snapshot_get(written, k, inst[t])

\* C3: at most one thread at a time holds a write transaction or is inside
\* the locked part of insert, remove, fetch_update or update_fetch.
HoldsTx(t) == pc[t] \in {"wtx_instant", "wtx_nonce", "wtx"}

InLockedOp(t) ==
    pc[t] \in {"fu_get", "fu_put", "fu_ret", "uf_get", "uf_put", "uf_ret",
               "ins_put", "ins_ret", "rm_put", "rm_ret"}

C4_Consecutive ==
    \A t \in Threads :
        (pc[t] \in {"wtx_nonce", "wtx"} /\ lastTxInst >= 0) => inst[t] = lastTxInst + 1

\* C4 amended: in lock order the instants of the write transactions never
\* decrease.
C4_Monotone ==
    \A t \in Threads :
        (pc[t] \in {"wtx_nonce", "wtx"} /\ lastTxInst >= 0) => inst[t] >= lastTxInst

\* A write transaction that waited for the lock behind another one, which
\* committed, holds a greater instant than that one.
C4_Witness ==
    \E t \in Threads, u \in Threads :
        /\ pc[t] = "wtx" /\ lastTxInst >= 0 /\ inst[t] > lastTxInst
        /\ pc[u] = "wtx_lock"

\* C5: fetch_update(k, f) returns the value prev that k had when the call got
\* the lock and leaves get(k) = f(prev), every other key as it was.
C5_FetchUpdate ==
    \A t \in Threads : pc[t] = "fu_ret" =>
        LET k == op[t].key
            p == inner_get(pre.versions, k)
        IN  /\ ret[t] = p
            /\ LatestMap(versions) = [LatestMap(pre.versions) EXCEPT ![k] = op[t].f[p]]

\* fetch_update(k, |_| None) on a present key returned its value and removed
\* the key.
C5_Witness ==
    \E t \in Threads :
        /\ pc[t] = "fu_ret" /\ op[t].f = FNone
        /\ ret[t] # None /\ inner_get(versions, op[t].key) = None

\* C6: update_fetch(k, f) leaves the store as fetch_update(k, f) run from the
\* same state leaves it (same values, same instant, same record committed)
\* and returns f(prev) where fetch_update returns prev.
C6_UpdateFetch ==
    \A t \in Threads : pc[t] = "uf_ret" =>
        LET k == op[t].key
            p == inner_get(pre.versions, k)
            fu == fetch_update_store([versions |-> pre.versions, seqno |-> pre.seqno],
                                     k, p, op[t].f[p])
        IN  /\ LatestMap(versions) = LatestMap(fu.versions)
            /\ seqno = fu.seqno
            /\ written \ pre.written = fu.versions \ pre.versions
            /\ ret[t] = op[t].f[p]

\* update_fetch changed a present key and returned the new value, not prev.
C6_Witness ==
    \E t \in Threads :
        /\ pc[t] = "uf_ret" /\ prev[t] # None
        /\ ret[t] # None /\ ret[t] # prev[t]

\* C7: fetch_update, update_fetch or take of an absent key whose closure
\* returns None writes nothing: no record is committed and the instant and
\* the stored values are as before.
C7_NoOp ==
    \A t \in Threads :
        (pc[t] \in {"fu_ret", "uf_ret"} /\ prev[t] = None /\ updated[t] = None) =>
            /\ seqno = pre.seqno
            /\ written = pre.written
            /\ LatestMap(versions) = LatestMap(pre.versions)

\* take of an absent key has run on a store that holds another key.
C7_Witness ==
    \E t \in Threads :
        /\ pc[t] = "fu_ret" /\ op[t].name = "take"
        /\ prev[t] = None /\ updated[t] = None
        /\ written # {}

\* C8: get and contains_key never wait for the lock (an idle thread can run
\* them whoever holds it) and return the value of the commit that was the
\* latest when they read.
C8_LockFreeRead ==
    \A t \in Threads :
        /\ pc[t] = "idle" => (ENABLED get(t)) /\ (ENABLED contains_key(t))
        /\ (pc[t] = "get_ret" /\ op[t].name = "get") =>
              ret[t] = snapshot_get(written, op[t].key, readAt[t])
        /\ (pc[t] = "get_ret" /\ op[t].name = "contains_key") =>
              ret[t] = (snapshot_get(written, op[t].key, readAt[t]) # None)

\* get returned a committed value while another thread was between the read
\* and the write of its fetch_update.
C8_Witness ==
    \E t \in Threads, u \in Threads :
        /\ pc[t] = "get_ret" /\ op[t].name = "get" /\ ret[t] # None
        /\ heldAtRead[t] = {u} /\ pc[u] = "fu_put"

\* The records of the emitted blocks, in file order.
RECURSIVE Records(_)
Records(bs) == IF bs = << >> THEN << >> ELSE Head(bs).items \o Records(Tail(bs))

NonTombstones(vs) == SelectSeq(vs, LAMBDA v : ~v.is_tombstone)

Tombstones(vs) == SelectSeq(vs, LAMBDA v : v.is_tombstone)

\* The records the writer keeps of the values it was given.
Retained(vs) == IF writer.evict_tombstones THEN NonTombstones(vs) ELSE vs

SeqnosOf(vs) == {vs[i].seqno : i \in 1..Len(vs)}

MinOf(S) == CHOOSE x \in S : \A y \in S : x <= y

MaxOf(S) == CHOOSE x \in S : \A y \in S : x >= y

\* Every write call and finalize returned Ok.
Finalized == phase = "finalized" /\ failed = 0

\* C9: for a sorted input V with unique (key, seqno), any block_size and any
\* tombstones, once every write and finalize have returned Ok the records of
\* the emitted blocks in file order are V when evict_tombstones is false, and
\* the non-tombstone subsequence of V when it is true.
C9_RoundTrip ==
    Finalized =>
        /\ writer.chunk = << >>
        /\ Records(writer.blocks) =
              (IF writer.evict_tombstones THEN NonTombstones(input) ELSE input)

\* Three values with a tombstone between two others were written with
\* evict_tombstones set, and the two others came out in two blocks.
C9_Witness ==
    /\ Finalized
    /\ writer.evict_tombstones
    /\ Len(input) = MaxLen
    /\ input[2].is_tombstone /\ ~input[1].is_tombstone /\ ~input[3].is_tombstone
    /\ Len(writer.blocks) = 2

\* C10 as stated: after a non-empty sorted input V is written and finalize
\* has returned Ok, first_key and last_key are the keys of V's first and last
\* value, lowest_seqno and highest_seqno the least and greatest seqno of V,
\* and tombstone_count the number of tombstones of V, or 0 with
\* evict_tombstones.
C10_Metadata ==
    (Finalized /\ input # << >>) =>
        /\ writer.first_key = Some(input[1].key)
        /\ writer.last_key = Some(input[Len(input)].key)
        /\ writer.lowest_seqno = MinOf(SeqnosOf(input))
        /\ writer.highest_seqno = MaxOf(SeqnosOf(input))
        /\ writer.tombstone_count =
              (IF writer.evict_tombstones THEN 0 ELSE Len(Tombstones(input)))

\* C10 amended: the metadata describes the records the writer retained, which
\* with evict_tombstones are the non-tombstones of V: first_key and last_key
\* are the keys of the first and last retained record, lowest_seqno and
\* highest_seqno their least and greatest seqno, tombstone_count the number of
\* retained tombstones; with no record retained the metadata is as Writer::new
\* set it.
C10_MetadataRetained ==
    (Finalized /\ input # << >>) =>
        LET R == Retained(input)
        IN  /\ writer.tombstone_count = Len(Tombstones(R))
            /\ IF R = << >>
               THEN /\ writer.first_key = None /\ writer.last_key = None
                    /\ writer.lowest_seqno = SeqNoMAX /\ writer.highest_seqno = 0
               ELSE /\ writer.first_key = Some(R[1].key)
                    /\ writer.last_key = Some(R[Len(R)].key)
                    /\ writer.lowest_seqno = MinOf(SeqnosOf(R))
                    /\ writer.highest_seqno = MaxOf(SeqnosOf(R))

\* With evict_tombstones the input began with a tombstone of key 1 whose
\* seqno is above every other's, and the retained records are of key 2.
C10_Witness ==
    /\ Finalized
    /\ writer.evict_tombstones
    /\ Len(input) = MaxLen
    /\ input[1].is_tombstone /\ input[1].key = 1
    /\ writer.first_key = Some(2)
    /\ writer.highest_seqno < input[1].seqno
    /\ writer.block_count > 0

KeysOf(vs) == {vs[i].key : i \in 1..Len(vs)}

\* The blocks of the file that start at the offset of index entry i.
BlocksAt(i) ==
    {j \in 1..Len(writer.blocks) : BlockStart(writer.blocks, j) = writer.index[i].offset}

\* C11: after a sorted input is written and finalized, the index lookup of
\* every key of a retained record designates a block that holds a record of
\* that key, and the lookup of a key outside [first_key, last_key] (0 and 3
\* lie outside every input) reports that the key is not in the segment.
C11_IndexLookup ==
    Finalized =>
        /\ \A k \in KeysOf(Retained(input)) :
              /\ index_lookup(writer, k) # {}
              /\ \A i \in index_lookup(writer, k) :
                    \E j \in BlocksAt(i) : k \in KeysOf(writer.blocks[j].items)
        /\ \A k \in WKeys \cup {0, 3} :
              (writer.first_key = None \/ k < writer.first_key[1] \/ k > writer.last_key[1])
                  => index_lookup(writer, k) = {}

\* C14: once a write or finalize call has returned an I/O error, every later
\* call returns an error and registers no block in the sparse index.
C14_Poisoned ==
    [][failed > 0 => (failed' > failed /\ writer'.index = writer.index)]_vars

\* C17: in an error-free run every emitted block is registered once, as (its
\* first key, the sum of the lengths of the blocks before it, its length);
\* file_pos is the number of bytes appended to the blocks file and block_count
\* the number of index entries.
C17_IndexEntries ==
    failed = 0 =>
        /\ Len(writer.index) = Len(writer.blocks)
        /\ \A i \in 1..Len(writer.blocks) :
              writer.index[i] = [first_key |-> writer.blocks[i].items[1].key,
                                 offset |-> BlockStart(writer.blocks, i),
                                 len |-> writer.blocks[i].len]
        /\ writer.file_pos = BlockStart(writer.blocks, Len(writer.blocks) + 1)
        /\ writer.block_count = Len(writer.index)

\* A finalized error-free run emitted two blocks of different lengths and a
\* third one.
C17_Witness ==
    /\ Finalized
    /\ Len(writer.index) = 3
    /\ writer.index[1].len # writer.index[2].len
    /\ writer.index[3].offset = writer.index[1].len + writer.index[2].len

\* C18: for a sorted input, each registered index entry's first_key is
\* greater than the first_key of the entry registered before it.
C18_IncreasingFirstKey ==
    failed = 0 =>
        \A i \in 1..(Len(writer.index) - 1) :
            writer.index[i].first_key < writer.index[i + 1].first_key

\* The blocks flushed by write: all of them, but for the last one when
\* finalize found records in the chunk (finalize leaves chunk_size as it was).
ByFinalize == phase = "finalized" /\ writer.chunk_size > 0

FlushedByWrite == 1..(Len(writer.blocks) - (IF ByFinalize THEN 1 ELSE 0))

SoftCap(items) ==
    /\ SumSize(items) >= writer.block_size
    /\ SumSize(SubSeq(items, 1, Len(items) - 1)) < writer.block_size

C20_EvictedTombstone ==
    [][(input' # input /\ writer.evict_tombstones /\ input'[Len(input')].is_tombstone)
          => (writer' = writer /\ failed' = failed)]_vars

\* A tombstone was written with evict_tombstones set while a record waited in
\* the chunk.
C20_Witness ==
    /\ writer.evict_tombstones
    /\ input # << >> /\ input[Len(input)].is_tombstone
    /\ writer.chunk # << >> /\ writer.chunk_size > 0
    /\ writer.first_key # None
    /\ failed = 0

\* The characters the claim allows: a-z, A-Z, 0-9, '_', '-', '.', '#'.
Legal(c) == c \in (97..122) \cup (65..90) \cup (48..57) \cup {95, 45, 46, 35}

Waiting(t) == pc[t] \in {"fu_lock", "uf_lock", "ins_lock", "rm_lock", "wtx_lock"}

Completed(t) == pc[t] \in {"idle", "wtx"}

\* C15: every write_tx, insert, remove, fetch_update or update_fetch that
\* waits for the writer lock eventually gets it and runs to completion (or
\* the run has used up its MaxSeqno commits).
C15_EventuallyRuns ==
    \A t \in Threads : Waiting(t) ~> (Completed(t) \/ seqno = MaxSeqno)

\* No deadlock: while commits remain, some thread can take a step.
C15_NoDeadlock ==
    (seqno < MaxSeqno) => \E t \in Threads : ENABLED (Progress(t) \/ call_insert(t))

\* ------------------------------------------------------------- SSI claims
\* The keys a commit writes.
WritesOf(r) == {v.key : v \in r.versions}
\* Two commits whose transactions overlapped: each began before the other
\* committed.
Concurrent(r1, r2) == r1.instant < r2.commit /\ r2.instant < r1.commit
\* The threads that hold a write transaction's instant.
HasInstant(t) == pc[t] \in {"s_wtx_nonce", "wtx", "c_validate", "c_instant", "c_publish", "c_unlock"}

\* C12: a commit passes validation only if no key of its read set has a
\* committed write with a commit instant above the transaction's instant, and
\* otherwise returns a conflict and leaves the store as it was: every version
\* ever published belongs to a commit that passed validation.  Two overlapping
\* transactions that each read a key the other writes never both commit.
C12_CommitValidation ==
    /\ \A r \in commits : \A v \in written :
          v.key \in r.reads => ~(r.instant < v.seqno /\ v.seqno < r.commit)
    /\ \A t \in Threads :
          /\ pc[t] = "c_instant" => ~Conflict(t)
          /\ outcome[t] = "conflict" =>
                /\ Conflict(t)
                /\ PreState = pre
                /\ \A r \in commits : r.commit <= seqno /\ r.versions \subseteq written
    /\ \A v \in written : \E r \in commits : v \in r.versions
    /\ \A r1, r2 \in commits :
          (r1 # r2 /\ Concurrent(r1, r2))
             => (r1.reads \cap WritesOf(r2) = {} \/ r2.reads \cap WritesOf(r1) = {})

\* A transaction is refused whose read key was written by an overlapping
\* commit that had itself read a key this transaction writes.
C12_Witness ==
    \E t \in Threads :
       /\ outcome[t] = "conflict"
       /\ \E r \in commits :
             /\ r.instant = inst[t]
             /\ rset[t] \cap WritesOf(r) # {}
             /\ \E k \in r.reads : wset[t][k] # {}

\* C13: at the instant a write transaction holds, every commit is entirely
\* visible or entirely invisible: the commits that obtained their commit
\* instant before write_tx read the instant have published all their writes,
\* and the later ones carry a greater instant.
C13_InstantUnderLock ==
    \A t \in Threads : HasInstant(t) =>
       \A r \in commits :
          /\ r.commit <= inst[t] => r.versions \subseteq versions
          /\ r.commit > inst[t] => \A v \in r.versions : v.seqno > inst[t]

\* write_tx has read the instant of a finished two-write commit while a later
\* commit is halfway through its publication.
C13_Witness ==
    \E t \in Threads :
       /\ pc[t] = "s_wtx_nonce"
       /\ \E r \in commits : r.commit = inst[t] /\ Cardinality(r.versions) = 2
       /\ \E u \in Threads : pc[u] = "c_publish" /\ publishing # {}
       /\ \E r \in commits :
             r.commit > inst[t] /\ r.versions \cap versions # {} /\ publishing # {}

\* ------------------------------------------------- writer claims, continued
\* The records the writer holds: those of the emitted blocks, then the chunk.
Held == Records(writer.blocks) \o writer.chunk

\* C21: while every call has returned Ok, every record held in a block or in
\* the chunk has its key in [first_key, last_key] and its seqno in
\* [lowest_seqno, highest_seqno]; first_key and last_key are unset,
\* lowest_seqno is SeqNo::MAX and highest_seqno is 0 exactly when no record is
\* held, and only then is lowest_seqno above highest_seqno.
C21_MetadataBounds ==
    failed = 0 =>
        /\ \A i \in 1..Len(Held) :
              /\ writer.first_key # None /\ writer.last_key # None
              /\ writer.first_key[1] <= Held[i].key
              /\ Held[i].key <= writer.last_key[1]
              /\ writer.lowest_seqno <= Held[i].seqno
              /\ Held[i].seqno <= writer.highest_seqno
        /\ (Held = << >>) <=> (writer.first_key = None)
        /\ (Held = << >>) <=> (writer.last_key = None)
        /\ (Held = << >>) <=>
              (writer.lowest_seqno = SeqNoMAX /\ writer.highest_seqno = 0)
        /\ (Held = << >>) <=> (writer.lowest_seqno > writer.highest_seqno)

\* Records of two keys and two seqnos are held, some in a block and one in
\* the chunk.
C21_Witness ==
    /\ failed = 0
    /\ phase = "writing"
    /\ writer.blocks # << >> /\ writer.chunk # << >>
    /\ writer.first_key # writer.last_key
    /\ writer.lowest_seqno < writer.highest_seqno

\* ------------------------------------------------- snapshot tracker claims
\* The threads whose transaction holds a registered snapshot nonce.
HoldsNonce(t) == pc[t] \in {"rtx", "wtx", "c_validate", "c_instant", "c_publish", "c_unlock"}
\* The threads that have read their transaction's instant and not yet
\* registered it.
ReadNotRegistered(t) == pc[t] \in {"rtx_nonce", "wtx_nonce", "s_wtx_nonce"}

\* C22: from the moment a transaction's instant is read until its nonce is
\* dropped, the watermark a compaction obtains from the tracker is at or
\* below that instant; and the tracker retains an instant for the live
\* nonces only, once per nonce.
C22_TrackedFromRead ==
    /\ \A t \in Threads :
          (ReadNotRegistered(t) \/ HoldsNonce(t)) => Watermark <= inst[t]
    /\ \A i \in 0..MaxSeqno :
          tracker[i] = Cardinality({t \in Threads : HoldsNonce(t) /\ inst[t] = i})

\* The same with the window between the read and the registration left out.
C22_RegisteredOnly ==
    /\ \A t \in Threads : HoldsNonce(t) => Watermark <= inst[t]
    /\ \A i \in 0..MaxSeqno :
          tracker[i] = Cardinality({t \in Threads : HoldsNonce(t) /\ inst[t] = i})

\* The same for the window of the single-writer write_tx alone.
C22_WriteTxWindow == \A t \in Threads : pc[t] = "wtx_nonce" => Watermark <= inst[t]

\* C23: whenever the sparse index has been finalized, every data block it
\* references has been flushed out of the block writer's buffer and fsynced,
\* in a finalize that ran to its end and in one cut short at any step.
C23_PublicationPoint ==
    (writer.index_finalized /\ writer.index # << >>) => writer.synced

\* The same for the finalize calls that returned Ok.
C23_AfterOk ==
    (phase = "finalized" /\ writer.index # << >>) =>
        (writer.index_finalized /\ writer.synced)

\* The offsets at which the blocks of the blocks file start.
BlockStarts == {BlockStart(writer.blocks, j) : j \in 1..Len(writer.blocks)}

\* C24: in every state, those after a failed write_block included, file_pos
\* is the number of bytes appended to the blocks file, every index entry's
\* offset is the start of the block it was registered for, and first_key,
\* last_key and the seqno bounds cover every record of the chunk.
C24_ConsistentAfterError ==
    /\ writer.file_pos = BlockStart(writer.blocks, Len(writer.blocks) + 1)
    /\ \A i \in 1..Len(writer.index) :
          \E j \in 1..Len(writer.blocks) :
             /\ writer.index[i].offset = BlockStart(writer.blocks, j)
             /\ writer.index[i].first_key = writer.blocks[j].items[1].key
             /\ writer.index[i].len = writer.blocks[j].len
    /\ \A i \in 1..Len(writer.chunk) :
          /\ writer.first_key # None /\ writer.last_key # None
          /\ writer.first_key[1] <= writer.chunk[i].key
          /\ writer.chunk[i].key <= writer.last_key[1]
          /\ writer.lowest_seqno <= writer.chunk[i].seqno
          /\ writer.chunk[i].seqno <= writer.highest_seqno

\* The three parts of C24, each alone.
C24_FilePos == writer.file_pos = BlockStart(writer.blocks, Len(writer.blocks) + 1)

C24_Offsets == \A i \in 1..Len(writer.index) : writer.index[i].offset \in BlockStarts

C24_ChunkCovered ==
    \A i \in 1..Len(writer.chunk) :
       /\ writer.first_key # None /\ writer.last_key # None
       /\ writer.first_key[1] <= writer.chunk[i].key
       /\ writer.chunk[i].key <= writer.last_key[1]
       /\ writer.lowest_seqno <= writer.chunk[i].seqno
       /\ writer.chunk[i].seqno <= writer.highest_seqno

\* C24 for the states in which no call has failed.
C24_ErrorFree == failed = 0 => C24_ConsistentAfterError

====
